---- MODULE Spec2Model ----
(***************************************************************************)
(* Media authenticity decision engine of finguardai-fot:                   *)
(*   inference/temporal_aggregation.py  aggregate_predictions              *)
(*   inference/audio_infer.py           HeuristicAudioDetector             *)
(*   agent/policy_rules.py              apply_policy_rules                 *)
(*   agent/explanation_engine.py        generate_explanation               *)
(*   app/config.py                      Settings                           *)
(*                                                                         *)
(* Probabilities are fixed-point integers in units of 1/10000, so 0.40 is  *)
(* 4000 and 1.0 is 10000.  Every score the model draws is a multiple of    *)
(* 0.005, for which the weighted sums, the interpolated percentiles and    *)
(* the medians below are exact in this unit.                               *)
(*                                                                         *)
(* aggregate_predictions converts its scores to float32 and returns a      *)
(* float32 median.  That conversion is modelled bit for bit (Float32,      *)
(* F32Add, F32Halve), and so is the binary64 arithmetic of the audio       *)
(* fusion (Double, DMul, DAdd), whose sum() rounds differently in          *)
(* different interpreter versions.  A float result is carried as c + e,    *)
(* where c is the decimal literal it lies next to and e in {-1, 0, 1} is   *)
(* the side of that literal on which it lies: 4001 is a float just above   *)
(* the float 0.40, and 5000 is 0.5 itself.  The decimals of the model are  *)
(* far more than one rounding apart, so c + e compares with every literal  *)
(* of the code the way the float does.  The standard deviation of the      *)
(* audio confidence is not rounded as a float (see _calculate_confidence). *)
(***************************************************************************)
EXTENDS Integers, Sequences, FiniteSets, TLC

VARIABLES
    settings,     \* app.config.settings: the process-wide Settings object
    pc,           \* stage of the evaluation: start, scored, classified, decided
    media,        \* "video", "audio", or "direct" for a bare call of the policy
    predictions,  \* argument of aggregate_predictions (video path)
    signals,      \* the five heuristic signals of analyze_audio (audio path)
    score,        \* aggregated / fused deepfake probability
    classified,   \* (verdict, risk_level) of the verdict classifier
    args,         \* arguments of the call of apply_policy_rules
    trace,        \* locals of apply_policy_rules at entry and after rules 1, 2, 3
    decision,     \* dict returned by apply_policy_rules
    events,       \* events written by log_event, oldest first
    interpreter,  \* the sum() of the Python interpreter the process runs on
    analysis,     \* dict returned by analyze_audio
    explanation,  \* text returned by generate_explanation
    frames,       \* concurrent calls of apply_policy_rules: the locals of each
    heap          \* the list objects those calls have created, by address

vars == <<settings, pc, media, predictions, signals, score, classified, args,
          trace, decision, events, interpreter, analysis, explanation, frames,
          heap>>

(***************************************************************************)
(* Bounds of the model.                                                    *)
(***************************************************************************)
\* longest enumerated sequence of per-face scores
MaxLen == 3
\* the confidences of bare policy calls are k/ConfidenceSteps, k = 0..ConfidenceSteps
ConfidenceSteps == 200

(***************************************************************************)
(* Program constants.                                                      *)
(***************************************************************************)
\* 1.0, the upper clip bound of np.clip(scores, 0.0, 1.0)
One == 10000
\* the literal 0.98 of rule 1
EXTREME_CONFIDENCE == 9800
DEEPFAKE_THRESHOLD_HIGH == 7500
DEEPFAKE_THRESHOLD_LOW == 4000
AUDIO_DEEPFAKE_THRESHOLD_HIGH == 7000
AUDIO_DEEPFAKE_THRESHOLD_LOW == 3000
RUNTIME_MODE == "EDGE_OFFLINE"
ENABLE_EVENT_LOGGING == TRUE

\* class Settings with the attribute values of the repository
ShippedSettings ==
    [RUNTIME_MODE |-> RUNTIME_MODE,
     DEEPFAKE_THRESHOLD_LOW |-> DEEPFAKE_THRESHOLD_LOW,
     DEEPFAKE_THRESHOLD_HIGH |-> DEEPFAKE_THRESHOLD_HIGH,
     AUDIO_DEEPFAKE_THRESHOLD_LOW |-> AUDIO_DEEPFAKE_THRESHOLD_LOW,
     AUDIO_DEEPFAKE_THRESHOLD_HIGH |-> AUDIO_DEEPFAKE_THRESHOLD_HIGH,
     ENABLE_EVENT_LOGGING |-> ENABLE_EVENT_LOGGING]

(***************************************************************************)
(* Configurations an installation can run with.  Settings is a plain class *)
(* whose attributes are edited per deployment: the runtime mode is a free  *)
(* string and the two video thresholds are free floats; nothing validates  *)
(* them.  Besides the shipped values the model draws the online mode, an   *)
(* unrecognized mode, an inverted pair, an equal pair and a pair whose     *)
(* band reaches past the extreme-confidence literal.                       *)
(***************************************************************************)
RuntimeModes == {"EDGE_OFFLINE", "EDGE_ONLINE", "EDGE_CLOUD"}

RecognizedModes == {"EDGE_OFFLINE", "EDGE_ONLINE"}

ThresholdPairs ==
    { <<DEEPFAKE_THRESHOLD_LOW, DEEPFAKE_THRESHOLD_HIGH>>,
      <<DEEPFAKE_THRESHOLD_HIGH, DEEPFAKE_THRESHOLD_LOW>>,
      <<DEEPFAKE_THRESHOLD_LOW, DEEPFAKE_THRESHOLD_LOW>>,
      <<DEEPFAKE_THRESHOLD_LOW, 9950>> }

Configurations ==
    { [ShippedSettings EXCEPT !.RUNTIME_MODE = m,
                              !.DEEPFAKE_THRESHOLD_LOW = p[1],
                              !.DEEPFAKE_THRESHOLD_HIGH = p[2]] :
        m \in RuntimeModes, p \in ThresholdPairs }

Verdicts == {"REAL", "DEEPFAKE", "UNCERTAIN"}

\* risk_level is a free string; UNKNOWN stands for any unrecognized one
RiskLevels == {"LOW", "MEDIUM", "HIGH", "CRITICAL"}

RiskInputs == RiskLevels \cup {"UNKNOWN"}

Confidences == { (k * One) \div ConfidenceSteps : k \in 0..ConfidenceSteps }

(***************************************************************************)
(* agent/policy_rules.py                                                   *)
(***************************************************************************)
\* lines 26-28: the locals before the first rule
PolicyStart(verdict, risk_level) ==
    [final_verdict |-> verdict,
     final_risk_level |-> risk_level,
     policy_flags |-> << >>]

\* rule 1 calling an extreme score a deepfake
Rule1_VerdictDeepfake(w, confidence) ==
    IF confidence > EXTREME_CONFIDENCE
    THEN [w EXCEPT !.final_verdict = "DEEPFAKE",
                   !.final_risk_level = "CRITICAL",
                   !.policy_flags = Append(@, "EXTREME_CONFIDENCE_LOCK")]
    ELSE w

\* lines 30-35, rule 1: extreme confidence override
Rule1(w, confidence) ==
    IF confidence > EXTREME_CONFIDENCE
    THEN [w EXCEPT !.final_risk_level = "CRITICAL",
                   !.policy_flags = Append(@, "EXTREME_CONFIDENCE_LOCK")]
    ELSE w

\* rule 2 with the lower threshold included in the band
InAmbiguityZone_Inclusive(confidence) ==
    /\ settings.DEEPFAKE_THRESHOLD_LOW <= confidence
    /\ confidence < settings.DEEPFAKE_THRESHOLD_HIGH

\* line 40: the condition of rule 2, read from the settings singleton
InAmbiguityZone(confidence) ==
    /\ settings.DEEPFAKE_THRESHOLD_LOW < confidence
    /\ confidence < settings.DEEPFAKE_THRESHOLD_HIGH

\* rule 2 putting its flag at the head of the list
Rule2_FlagFirst(w, confidence) ==
    IF /\ settings.DEEPFAKE_THRESHOLD_LOW < confidence
       /\ confidence < settings.DEEPFAKE_THRESHOLD_HIGH
    THEN [w EXCEPT !.final_verdict = "UNCERTAIN",
                   !.final_risk_level = "MEDIUM",
                   !.policy_flags = <<"REQUIRES_HUMAN_REVIEW">> \o @]
    ELSE w

\* lines 37-43, rule 2: the ambiguity zone
Rule2(w, confidence) ==
    IF InAmbiguityZone(confidence)
    THEN [w EXCEPT !.final_verdict = "UNCERTAIN",
                   !.final_risk_level = "MEDIUM",
                   !.policy_flags = Append(@, "REQUIRES_HUMAN_REVIEW")]
    ELSE w

\* rule 3 without the test of the runtime mode
OfflineUncertain_AnyMode(w) == w.final_verdict = "UNCERTAIN"

\* line 48: the condition of rule 3
OfflineUncertain(w) ==
    /\ settings.RUNTIME_MODE = "EDGE_OFFLINE"
    /\ w.final_verdict = "UNCERTAIN"

\* no offline escalation at all
Rule3_Never(w) == w

\* rule 3 appending its flag without raising the risk level
Rule3_FlagOnly(w) ==
    IF settings.RUNTIME_MODE = "EDGE_OFFLINE" /\ w.final_verdict = "UNCERTAIN"
    THEN [w EXCEPT !.policy_flags = Append(@, "OFFLINE_PRECAUTIONARY_ESCALATION")]
    ELSE w

\* lines 45-50, rule 3: offline escalation
Rule3(w) ==
    IF OfflineUncertain(w)
    THEN [w EXCEPT !.final_risk_level = "HIGH",
                   !.policy_flags = Append(@, "OFFLINE_PRECAUTIONARY_ESCALATION")]
    ELSE w

\* the action derived from CRITICAL alone
ActionRequired_CriticalOnly(final_risk_level) ==
    IF final_risk_level = "CRITICAL" THEN "MANUAL_INSPECTION" ELSE "NONE"

\* line 60
ActionRequired(final_risk_level) ==
    IF final_risk_level \in {"HIGH", "CRITICAL"} THEN "MANUAL_INSPECTION" ELSE "NONE"

\* the locals at entry and after each rule, in order
PolicyTrace(verdict, confidence, risk_level) ==
    LET w0 == PolicyStart(verdict, risk_level)
        w1 == Rule1(w0, confidence)
        w2 == Rule2(w1, confidence)
        w3 == Rule3(w2)
    IN  <<w0, w1, w2, w3>>

\* lines 56-61: the returned dict
PolicyReturn(w) ==
    [verdict |-> w.final_verdict,
     risk_level |-> w.final_risk_level,
     policy_applied |-> w.policy_flags,
     action_required |-> ActionRequired(w.final_risk_level)]

apply_policy_rules(verdict, confidence, risk_level) ==
    PolicyReturn(PolicyTrace(verdict, confidence, risk_level)[4])

\* one list object that every call appends to
Allocate_OneListForAll(h, list) ==
    [heap |-> IF h = << >> THEN <<list>> ELSE h, address |-> 1]

\* line 28: policy_flags = [] creates a new list object at a fresh address
Allocate(h, list) == [heap |-> Append(h, list), address |-> Len(h) + 1]

(***************************************************************************)
(* app_logging/event_logger.py                                             *)
(***************************************************************************)
\* log_event: the entry appended to system_events.jsonl (timestamp and env
\* left out), nothing when event logging is disabled
log_event(log, event_type, data) ==
    IF ~settings.ENABLE_EVENT_LOGGING
    THEN log
    ELSE Append(log, [event_type |-> event_type,
                      metadata |-> data,
                      runtime_mode |-> settings.RUNTIME_MODE])

(***************************************************************************)
(* inference/temporal_aggregation.py                                       *)
(***************************************************************************)
\* the clamp with its lower bound alone
Clip_LowerOnly(x) == IF x < 0 THEN 0 ELSE x

\* np.clip(x, 0.0, 1.0) of one element
Clip(x) == IF x < 0 THEN 0 ELSE IF x > One THEN One ELSE x

ClipAll(s) == [i \in 1..Len(s) |-> Clip(s[i])]

\* no sorting: the elements in the order given
Sorted_AsGiven(s) == s

\* the elements of s in ascending order, as numpy orders them before it
\* interpolates: position k holds the value x with fewer than k elements
\* below it and at least k elements not above it
Sorted(s) ==
    [k \in 1..Len(s) |->
        CHOOSE x \in {s[i] : i \in 1..Len(s)} :
            /\ Cardinality({i \in 1..Len(s) : s[i] < x}) < k
            /\ k <= Cardinality({i \in 1..Len(s) : s[i] <= x})]

\* the percentile without interpolation: the element below the virtual index
Percentile100_Lower(s, q) == 100 * Sorted(s)[(q * (Len(s) - 1)) \div 100 + 1]

\* both percentiles taken as the minimum
Percentile100_Minimum(s, q) == 100 * Sorted(s)[1]

\* 100 * np.percentile(s, q) for a non-empty s, numpy's default linear method:
\* the virtual index is q/100 * (n-1), the value a[lo] + frac * (a[lo+1] - a[lo])
Percentile100(s, q) ==
    LET a == Sorted(s)
        pos == q * (Len(s) - 1)
        lo == pos \div 100
        frac == pos % 100
    IN  IF frac = 0
        THEN 100 * a[lo + 1]
        ELSE 100 * a[lo + 1] + frac * (a[lo + 2] - a[lo + 1])

\* the filter with both bounds excluded
FilterScores_Exclusive(scores, lower100, upper100) ==
    SelectSeq(scores, LAMBDA x : 100 * x > lower100 /\ 100 * x < upper100)

\* the filter with its upper bound alone
FilterScores_UpperOnly(scores, lower100, upper100) ==
    SelectSeq(scores, LAMBDA x : 100 * x <= upper100)

\* line 34: scores[(scores >= lower) & (scores <= upper)], order kept
FilterScores(scores, lower100, upper100) ==
    SelectSeq(scores, LAMBDA x : 100 * x >= lower100 /\ 100 * x <= upper100)

\* the decimal median of a non-empty s: the middle element, or the mean of
\* the two middle elements (exact here: every modelled score is a multiple
\* of 50)
Median(s) ==
    LET a == Sorted(s)
        n == Len(s)
    IN  IF n % 2 = 1 THEN a[(n + 1) \div 2]
        ELSE (a[n \div 2] + a[n \div 2 + 1]) \div 2

\* number of values of a float32 significand (24 bits, IEEE 754 binary32)
F32Significand == 16777216

RECURSIVE F32Round(_, _, _)
\* the float32 nearest to (q + r/One) / 2^s, as [m, e] with value m / 2^e:
\* binary long division until the quotient has 24 bits, then round to
\* nearest, ties to even
F32Round(q, r, s) ==
    IF 2 * q < F32Significand
    THEN F32Round(2 * q + (2 * r) \div One, (2 * r) % One, s + 1)
    ELSE LET up == 2 * r > One \/ (2 * r = One /\ q % 2 = 1)
         IN  [m |-> IF up THEN q + 1 ELSE q, e |-> s]

\* line 26: np.float32 of the score k/One
Float32(k) == IF k = 0 THEN [m |-> 0, e |-> 0] ELSE F32Round(k \div One, k % One, 0)

RECURSIVE F32Excess(_)
\* the number of bits n has beyond the 24 of a significand
F32Excess(n) == IF n < F32Significand THEN 0 ELSE 1 + F32Excess(n \div 2)

\* n / 2^s rounded to 24 significant bits, ties to even
F32Normal(n, s) ==
    LET t == F32Excess(n)
        m == n \div 2 ^ t
        rest == n % 2 ^ t
        half == 2 ^ (t - 1)
        up == rest > half \/ (rest = half /\ m % 2 = 1)
    IN  IF t = 0 THEN [m |-> n, e |-> s]
        ELSE [m |-> IF up THEN m + 1 ELSE m, e |-> s - t]

\* float32 addition x + y
F32Add(x, y) ==
    LET s == IF x.e > y.e THEN x.e ELSE y.e
    IN  F32Normal(x.m * 2 ^ (s - x.e) + y.m * 2 ^ (s - y.e), s)

\* float32 division by 2 (exact)
F32Halve(x) == [m |-> x.m, e |-> x.e + 1]

RECURSIVE F32Scaled(_, _, _)
\* (q + r/One) * 2^s as [q, r]
F32Scaled(q, r, s) ==
    IF s = 0 THEN [q |-> q, r |-> r]
    ELSE F32Scaled(2 * q + (2 * r) \div One, (2 * r) % One, s - 1)

\* the side of the decimal c/One on which the float32 x lies: -1, 0 or 1
F32Side(x, c) ==
    LET d == F32Scaled(c \div One, c % One, x.e)
    IN  IF x.m > d.q THEN 1
        ELSE IF x.m = d.q /\ d.r = 0 THEN 0
        ELSE -1

\* line 40: float(x), carried as the decimal c next to it plus its side
Float(x, c) == c + F32Side(x, c)

\* line 40: np.median of the float32 array: the middle element, or the
\* float32 mean of the two middle elements
F32Median(s) ==
    LET a == Sorted(s)
        n == Len(s)
    IN  IF n % 2 = 1 THEN Float32(a[(n + 1) \div 2])
        ELSE F32Halve(F32Add(Float32(a[n \div 2]), Float32(a[n \div 2 + 1])))

\* lines 26-40: the locals of aggregate_predictions for a non-empty input;
\* scores holds the decimal of each float32 element (clipping commutes with
\* the conversion: 0.0 and 1.0 are float32 values)
AggregateLocals(preds) ==
    LET scores == ClipAll(preds)
        lower100 == Percentile100(scores, 5)
        upper100 == Percentile100(scores, 95)
        kept == FilterScores(scores, lower100, upper100)
        filtered_scores == IF Len(kept) = 0 THEN scores ELSE kept
    IN  [scores |-> scores,
         lower100 |-> lower100,
         upper100 |-> upper100,
         filtered_scores |-> filtered_scores,
         final_score |-> Float(F32Median(filtered_scores), Median(filtered_scores))]

\* an empty input scored as inconclusive
aggregate_predictions_EmptyHalf(preds) ==
    IF preds = << >> THEN One \div 2 ELSE AggregateLocals(preds).final_score

\* lines 23-51: the returned score
aggregate_predictions(preds) ==
    IF preds = << >> THEN 0 ELSE AggregateLocals(preds).final_score

\* lines 42-49: the event an aggregation of a non-empty input logs
AggregationEvent(preds) ==
    LET l == AggregateLocals(preds)
    IN  [raw_count |-> Len(l.scores),
         filtered_count |-> Len(l.filtered_scores),
         final_score |-> l.final_score]

(***************************************************************************)
(* inference/audio_infer.py                                                *)
(***************************************************************************)
SignalNames ==
    <<"spectral_inconsistency", "pitch_abnormality", "energy_gaps",
      "high_freq_artifacts", "temporal_discontinuity">>

\* weights that favour the spectral signal
Weights_HeavySpectral ==
    [spectral_inconsistency |-> 30,
     pitch_abnormality |-> 20,
     energy_gaps |-> 15,
     high_freq_artifacts |-> 25,
     temporal_discontinuity |-> 15]

\* lines 52-58: the fusion weights, in hundredths
Weights ==
    [spectral_inconsistency |-> 25,
     pitch_abnormality |-> 20,
     energy_gaps |-> 15,
     high_freq_artifacts |-> 25,
     temporal_discontinuity |-> 15]

\* the same checks with a spectral check that can return 1.0
CheckReturns_SpectralCertain ==
    [spectral_inconsistency |-> {One, 7000, 1000},
     pitch_abnormality |-> {5000, 7500, 6500, 1500},
     energy_gaps |-> {7000, 2000},
     high_freq_artifacts |-> {8000, 5000, 1000},
     temporal_discontinuity |-> {7500, 4000, 1000}]

\* the values the five _check_* methods return; which one depends on the audio
CheckReturns ==
    [spectral_inconsistency |-> {8000, 7000, 1000},
     pitch_abnormality |-> {5000, 7500, 6500, 1500},
     energy_gaps |-> {7000, 2000},
     high_freq_artifacts |-> {8000, 5000, 1000},
     temporal_discontinuity |-> {7500, 4000, 1000}]

\* lines 43-49: every signals dict analyze_audio can build
SignalSets ==
    [spectral_inconsistency : CheckReturns.spectral_inconsistency,
     pitch_abnormality : CheckReturns.pitch_abnormality,
     energy_gaps : CheckReturns.energy_gaps,
     high_freq_artifacts : CheckReturns.high_freq_artifacts,
     temporal_discontinuity : CheckReturns.temporal_discontinuity]

(***************************************************************************)
(* Python floats (IEEE 754 binary64), as far as line 60 needs them: a      *)
(* float is [s, m, e] with value s * m / 2^e, s the sign, m a natural      *)
(* number below 2^53.  Significands and the exact intermediate results are *)
(* long natural numbers: sequences of limbs of LimbBits bits, the least    *)
(* significant limb first, no leading zero limb.                           *)
(***************************************************************************)
LimbBits == 14
Limb == 2 ^ LimbBits
\* bits of a binary64 significand
DoubleBits == 53

RECURSIVE Trim(_)
Trim(a) ==
    IF a # << >> /\ a[Len(a)] = 0 THEN Trim(SubSeq(a, 1, Len(a) - 1)) ELSE a

RECURSIVE Carry(_, _)
\* the limbs of the number whose limb i is a[i], any integer, plus carry c
Carry(a, c) ==
    IF a = << >> THEN (IF c = 0 THEN << >> ELSE <<c % Limb>> \o Carry(<< >>, c \div Limb))
    ELSE <<(a[1] + c) % Limb>> \o Carry(Tail(a), (a[1] + c) \div Limb)

Digit(a, i) == IF 1 <= i /\ i <= Len(a) THEN a[i] ELSE 0

Longer(a, b) == IF Len(a) >= Len(b) THEN Len(a) ELSE Len(b)

\* the long number of a small natural
Long(n) == Trim(Carry(<<n>>, 0))

LAdd(a, b) == Trim(Carry([i \in 1..Longer(a, b) |-> Digit(a, i) + Digit(b, i)], 0))

\* a - b for a >= b
LSub(a, b) == Trim(Carry([i \in 1..Longer(a, b) |-> Digit(a, i) - Digit(b, i)], 0))

RECURSIVE Column(_, _, _, _)
\* the sum of a[i] * b[k + 1 - i] over the limbs i..Len(a)
Column(a, b, k, i) ==
    IF i > Len(a) THEN 0 ELSE a[i] * Digit(b, k + 1 - i) + Column(a, b, k, i + 1)

\* a * b, for a and b of at most four limbs
LMul(a, b) == Trim(Carry([k \in 1..(Len(a) + Len(b)) |-> Column(a, b, k, 1)], 0))

\* a * 2^n
LShift(a, n) ==
    LET q == n \div LimbBits
        r == n % LimbBits
    IN  Trim(Carry([i \in 1..(Len(a) + q) |-> IF i <= q THEN 0 ELSE a[i - q] * 2 ^ r], 0))

RECURSIVE LDiv(_, _)
\* quotient and remainder of a by the small natural d
LDiv(a, d) ==
    IF a = << >> THEN [q |-> << >>, r |-> 0]
    ELSE LET h == LDiv(Tail(a), d)
             cur == h.r * Limb + a[1]
         IN  [q |-> <<cur \div d>> \o h.q, r |-> cur % d]

RECURSIVE LCmp(_, _, _)
\* -1, 0 or 1 as a < b, a = b or a > b, comparing from limb i downwards
LCmp(a, b, i) ==
    IF i = 0 THEN 0
    ELSE IF Digit(a, i) > Digit(b, i) THEN 1
    ELSE IF Digit(a, i) < Digit(b, i) THEN -1
    ELSE LCmp(a, b, i - 1)

Compare(a, b) == LCmp(a, b, Longer(a, b))

RECURSIVE BitsOf(_)
\* the number of bits of a small natural
BitsOf(n) == IF n = 0 THEN 0 ELSE 1 + BitsOf(n \div 2)

\* the number of bits of a
LBits(a) == IF a = << >> THEN 0 ELSE LimbBits * (Len(a) - 1) + BitsOf(a[Len(a)])

\* a / 2^n rounded to the nearest natural, ties to even
LRound(a, n) ==
    LET q == n \div LimbBits
        r == n % LimbBits
        floor == Trim(LDiv(SubSeq(a, q + 1, Len(a)), 2 ^ r).q)
        rest == LSub(a, LShift(floor, n))
        half == Compare(LShift(rest, 1), LShift(Long(1), n))
        up == half = 1 \/ (half = 0 /\ Digit(floor, 1) % 2 = 1)
    IN  IF up THEN LAdd(floor, Long(1)) ELSE floor

\* the float nearest to s * a / 2^e, ties to even
Round(s, a, e) ==
    LET t == LBits(a) - DoubleBits
    IN  IF t <= 0 THEN [s |-> s, m |-> a, e |-> e]
        ELSE [s |-> s, m |-> LRound(a, t), e |-> e - t]

\* the float of the literal k/One, k >= 0
Double(k) ==
    LET wide == 5 * LimbBits
        bits == LBits(Trim(LDiv(LShift(Long(k), wide), One).q))
        e == wide - (bits - DoubleBits)
        d == LDiv(LShift(Long(k), e), One)
        up == 2 * d.r > One \/ (2 * d.r = One /\ Digit(d.q, 1) % 2 = 1)
    IN  IF k = 0 THEN [s |-> 1, m |-> << >>, e |-> 0]
        ELSE [s |-> 1, m |-> IF up THEN LAdd(Trim(d.q), Long(1)) ELSE Trim(d.q), e |-> e]

\* x * y
DMul(x, y) == Round(x.s * y.s, LMul(x.m, y.m), x.e + y.e)

\* |x| compared with |y|
DCmpAbs(x, y) ==
    LET e == IF x.e >= y.e THEN x.e ELSE y.e
    IN  Compare(LShift(x.m, e - x.e), LShift(y.m, e - y.e))

\* x + y
DAdd(x, y) ==
    LET e == IF x.e >= y.e THEN x.e ELSE y.e
        a == LShift(x.m, e - x.e)
        b == LShift(y.m, e - y.e)
    IN  IF x.m = << >> THEN y
        ELSE IF y.m = << >> THEN x
        ELSE IF x.s = y.s THEN Round(x.s, LAdd(a, b), e)
        ELSE IF Compare(a, b) >= 0 THEN Round(x.s, LSub(a, b), e)
        ELSE Round(y.s, LSub(b, a), e)

\* x - y
DSub(x, y) == DAdd(x, [s |-> 0 - y.s, m |-> y.m, e |-> y.e])

\* the side of the float of the literal c/One on which the float x >= 0
\* lies: -1, 0 or 1; 0 means x == c/One in Python
DSide(x, c) == DCmpAbs(x, Double(c))

RECURSIVE WeightedSum(_, _)
\* signals[k] * weights[k] summed over the first n keys, in exact arithmetic
WeightedSum(sig, n) ==
    IF n = 0 THEN 0
    ELSE WeightedSum(sig, n - 1) + sig[SignalNames[n]] * Weights[SignalNames[n]]

\* the weighted sum of line 60 as a decimal, without any rounding
ExactScore(sig) == WeightedSum(sig, Len(SignalNames)) \div 100

\* line 60: the float signals[k] * weights[k] of the n-th key
Product(sig, n) ==
    DMul(Double(sig[SignalNames[n]]), Double(100 * Weights[SignalNames[n]]))

\* the built-in sum() of the interpreter: floats added one after the other
\* (CPython up to 3.11), or added with Neumaier's compensation (from 3.12)
SumAlgorithms == {"plain", "compensated"}

Zero == [s |-> 1, m |-> << >>, e |-> 0]

RECURSIVE PlainSum(_, _)
\* sum() over the first n products, each addition rounded
PlainSum(sig, n) ==
    IF n = 0 THEN Zero ELSE DAdd(PlainSum(sig, n - 1), Product(sig, n))

RECURSIVE Neumaier(_, _)
\* the running total f and the compensation c after the first n products
Neumaier(sig, n) ==
    IF n = 0 THEN [f |-> Zero, c |-> Zero]
    ELSE LET h == Neumaier(sig, n - 1)
             x == Product(sig, n)
             t == DAdd(h.f, x)
         IN  [f |-> t,
              c |-> IF DCmpAbs(h.f, x) >= 0
                    THEN DAdd(h.c, DAdd(DSub(h.f, t), x))
                    ELSE DAdd(h.c, DAdd(DSub(x, t), h.f))]

\* sum() with the compensation added at the end, when it is not zero
CompensatedSum(sig, n) ==
    LET h == Neumaier(sig, n)
    IN  IF h.c.m # << >> THEN DAdd(h.f, h.c) ELSE h.f

\* line 60: sum(signals[k] * weights[k] for k in weights) as a float
FloatScore(sig, algorithm) ==
    IF algorithm = "plain" THEN PlainSum(sig, Len(SignalNames))
    ELSE CompensatedSum(sig, Len(SignalNames))

\* line 60: final_score, carried as the decimal c whose float it is or lies
\* next to, plus its side
FinalScore(sig, algorithm) ==
    ExactScore(sig) + DSide(FloatScore(sig, algorithm), ExactScore(sig))

\* the bounds of np.clip in _calculate_confidence (line 195)
CONFIDENCE_MIN == 3000
CONFIDENCE_MAX == 9500

\* the comparison values of _generate_explanation (lines 199, 202-206, 211)
LIKELY_DEEPFAKE_ABOVE == 7000
UNCERTAIN_ABOVE == 4000
REASON_ABOVE == 6000

\* every signal of the model is a multiple of Step/One = 0.005
Step == 50

RECURSIVE ISqrtBetween(_, _, _)
\* the largest r in lo..hi with r * r <= x, given lo * lo <= x
ISqrtBetween(x, lo, hi) ==
    IF lo = hi THEN lo
    ELSE LET mid == (lo + hi + 1) \div 2
         IN  IF mid * mid <= x THEN ISqrtBetween(x, mid, hi)
             ELSE ISqrtBetween(x, lo, mid - 1)

RECURSIVE SumOfPowers(_, _, _)
\* the sum of (signal / Step)^p over the first n signals
SumOfPowers(sig, p, n) ==
    IF n = 0 THEN 0
    ELSE SumOfPowers(sig, p, n - 1) + (sig[SignalNames[n]] \div Step) ^ p

\* line 194: np.std(scores), the population standard deviation, in units of
\* 1/One and rounded down: sqrt(n * sum(x^2) - sum(x)^2) / n
StdDev(sig) ==
    LET n == Len(SignalNames)
        d == n * SumOfPowers(sig, 2, n) - SumOfPowers(sig, 1, n) ^ 2
        unit == Step \div n
    IN  ISqrtBetween(d * unit * unit, 0, 2 * One)

\* np.clip(x, lo, hi) of one value
ClipTo(x, lo, hi) == IF x < lo THEN lo ELSE IF x > hi THEN hi ELSE x

\* the confidence with the lower bound of the clamp alone
_calculate_confidence_NoCeiling(sig) ==
    ClipTo(One - StdDev(sig), CONFIDENCE_MIN, One)

\* lines 189-195: 1.0 - np.std(scores), clamped (rounded up to 1/One where
\* the deviation is irrational; the clamp decides exactly)
_calculate_confidence(sig) ==
    ClipTo(One - StdDev(sig), CONFIDENCE_MIN, CONFIDENCE_MAX)

RECURSIVE Join(_, _)
\* sep.join(parts)
Join(sep, parts) ==
    IF parts = << >> THEN ""
    ELSE IF Len(parts) = 1 THEN parts[1]
    ELSE parts[1] \o sep \o Join(sep, Tail(parts))

\* the reasons list with the spectral reason alone
Reasons_SpectralOnly(sig) ==
    IF sig.spectral_inconsistency > REASON_ABOVE
    THEN <<"unnatural spectral patterns">> ELSE << >>

\* the reasons with the pitch reason first
Reasons_PitchFirst(sig) ==
    (IF sig.pitch_abnormality > REASON_ABOVE
     THEN <<"robotic pitch contours">> ELSE << >>)
    \o (IF sig.spectral_inconsistency > REASON_ABOVE
        THEN <<"unnatural spectral patterns">> ELSE << >>)
    \o (IF sig.high_freq_artifacts > REASON_ABOVE
        THEN <<"weak high-frequency content">> ELSE << >>)

\* lines 201-207: the reasons list
Reasons(sig) ==
    (IF sig.spectral_inconsistency > REASON_ABOVE
     THEN <<"unnatural spectral patterns">> ELSE << >>)
    \o (IF sig.pitch_abnormality > REASON_ABOVE
        THEN <<"robotic pitch contours">> ELSE << >>)
    \o (IF sig.high_freq_artifacts > REASON_ABOVE
        THEN <<"weak high-frequency content">> ELSE << >>)

\* lines 197-215
_generate_explanation(sig, final_score) ==
    IF final_score > LIKELY_DEEPFAKE_ABOVE
    THEN "LIKELY DEEPFAKE" \o ": Detected " \o Join(", ", Reasons(sig)) \o "."
    ELSE IF final_score > UNCERTAIN_ABOVE
    THEN "UNCERTAIN: Some suspicious artifacts detected, but inconclusive."
    ELSE "LIKELY AUTHENTIC: Audio shows natural speech characteristics."

\* lines 51-70: the dict analyze_audio returns for the signals sig
analyze_audio(sig) ==
    LET final_score == FinalScore(sig, interpreter)
    IN  [score |-> final_score,
         confidence |-> _calculate_confidence(sig),
         signals |-> sig,
         explanation |-> _generate_explanation(sig, final_score)]

(***************************************************************************)
(* agent/explanation_engine.py.  The returned f-string is carried by its   *)
(* parts: the text of the base message with {} where the number goes, the  *)
(* number in hundredths of a percent (a float, carried as c + e), and the  *)
(* risk message.                                                           *)
(***************************************************************************)
\* line 30: round(safe_confidence * 100, 2), in hundredths of a percent; a
\* confidence of the model has at most four decimals, so round() returns the
\* float of the literal
Percentage(confidence) == (confidence * 100 * 100) \div One

\* line 36: 100 - percentage, a float subtraction
Remainder(percentage) ==
    (100 * 100 - percentage)
    + DSide(DSub(Double(100 * One), Double(100 * percentage)),
            100 * (100 * 100 - percentage))

\* the base message with the ambiguous clause citing the confidence as well
BaseMessage_AmbiguousCitesConfidence(verdict, percentage) ==
    IF verdict = "DEEPFAKE"
    THEN [text |-> "The system detected strong indicators of digital manipulation (Confidence: {}%).",
          number |-> <<percentage>>]
    ELSE IF verdict = "REAL"
    THEN [text |-> "The analysis suggests the media is authentic (Confidence: {}% real).",
          number |-> <<100 * 100 - percentage>>]
    ELSE [text |-> "The analysis resulted in an ambiguous verdict.", number |-> <<percentage>>]

\* the base message with REAL citing the confidence itself
BaseMessage_RealCitesConfidence(verdict, percentage) ==
    IF verdict = "DEEPFAKE"
    THEN [text |-> "The system detected strong indicators of digital manipulation (Confidence: {}%).",
          number |-> <<percentage>>]
    ELSE IF verdict = "REAL"
    THEN [text |-> "The analysis suggests the media is authentic (Confidence: {}% real).",
          number |-> <<percentage>>]
    ELSE [text |-> "The analysis resulted in an ambiguous verdict.", number |-> << >>]

\* lines 33-38: base_msg
BaseMessage(verdict, percentage) ==
    IF verdict = "DEEPFAKE"
    THEN [text |-> "The system detected strong indicators of digital manipulation (Confidence: {}%).",
          number |-> <<percentage>>]
    ELSE IF verdict = "REAL"
    THEN [text |-> "The analysis suggests the media is authentic (Confidence: {}% real).",
          number |-> <<Remainder(percentage)>>]
    ELSE [text |-> "The analysis resulted in an ambiguous verdict.", number |-> << >>]

\* lines 41-48: risk_msg
RiskMessage(risk_level) ==
    IF risk_level = "CRITICAL"
    THEN " This media shows high-probability synthesis and should be treated as high-risk content."
    ELSE IF risk_level = "HIGH"
    THEN " Significant anomalies were found. Manual verification is strongly recommended."
    ELSE IF risk_level = "MEDIUM"
    THEN " The system encountered conflicting patterns. Please review the detailed analysis."
    ELSE " No significant anomalies detected."

\* lines 13-50
generate_explanation(verdict, confidence, risk_level) ==
    [base_msg |-> BaseMessage(verdict, Percentage(confidence)),
     risk_msg |-> RiskMessage(risk_level)]

(***************************************************************************)
(* The verdict classifier and the wiring of the stages: the entry point    *)
(* that calls them is not among the sources, they follow the design        *)
(* document (sections 2 and 4.3).                                          *)
(***************************************************************************)
\* the classifier with a strict lower comparison
classify_StrictLow(confidence, threshold_low, threshold_high) ==
    IF confidence >= threshold_high THEN [verdict |-> "DEEPFAKE", risk_level |-> "HIGH"]
    ELSE IF confidence < threshold_low THEN [verdict |-> "REAL", risk_level |-> "LOW"]
    ELSE [verdict |-> "UNCERTAIN", risk_level |-> "MEDIUM"]

\* the classifier with a strict upper comparison
classify_StrictHigh(confidence, threshold_low, threshold_high) ==
    IF confidence > threshold_high THEN [verdict |-> "DEEPFAKE", risk_level |-> "HIGH"]
    ELSE IF confidence <= threshold_low THEN [verdict |-> "REAL", risk_level |-> "LOW"]
    ELSE [verdict |-> "UNCERTAIN", risk_level |-> "MEDIUM"]

classify(confidence, threshold_low, threshold_high) ==
    IF confidence >= threshold_high THEN [verdict |-> "DEEPFAKE", risk_level |-> "HIGH"]
    ELSE IF confidence <= threshold_low THEN [verdict |-> "REAL", risk_level |-> "LOW"]
    ELSE [verdict |-> "UNCERTAIN", risk_level |-> "MEDIUM"]

\* the threshold pair of a media type: video and audio are tuned separately
ClassifierThresholds(m) ==
    IF m = "audio"
    THEN <<settings.AUDIO_DEEPFAKE_THRESHOLD_LOW, settings.AUDIO_DEEPFAKE_THRESHOLD_HIGH>>
    ELSE <<settings.DEEPFAKE_THRESHOLD_LOW, settings.DEEPFAKE_THRESHOLD_HIGH>>

(***************************************************************************)
(* Inputs.                                                                 *)
(***************************************************************************)
\* per-face scores, two of them outside [0,1]
ScoreValues == {-500, 500, 4000, 7500, 9900, 12000}

\* the ten scores of the end-to-end scenario of the design document
Scenario == <<8100, 7900, 8300, 8000, 500, 8200, 7800, 8400, 8000, 7700>>

\* the two hundred-score inputs of the design document: [0.5]*100, and 99
\* values of 0.1 with one 0.99
Hundreds ==
    {[i \in 1..100 |-> 5000], [i \in 1..100 |-> IF i = 100 THEN 9900 ELSE 1000]}

PredictionInputs ==
    {Scenario} \cup Hundreds \cup UNION { [1..n -> ScoreValues] : n \in 0..MaxLen }

NoPair == [verdict |-> "", risk_level |-> ""]
NoArgs == [verdict |-> "", confidence |-> 0, risk_level |-> ""]
NoDecision ==
    [verdict |-> "", risk_level |-> "", policy_applied |-> << >>, action_required |-> ""]
NoSignals == [k \in {SignalNames[i] : i \in 1..Len(SignalNames)} |-> 0]
NoAnalysis == [score |-> 0, confidence |-> 0, signals |-> NoSignals, explanation |-> ""]
NoExplanation == [base_msg |-> [text |-> "", number |-> << >>], risk_msg |-> ""]

\* verdict arguments of generate_explanation: the three verdicts and a string
\* that is none of them
VerdictInputs == Verdicts \cup {"UNKNOWN"}

\* confidence arguments of generate_explanation: the grid and 0.876
ExplainedConfidences == Confidences \cup {8760}

\* five signals all equal to x
EqualSignals(x) == [k \in {SignalNames[i] : i \in 1..Len(SignalNames)} |-> x]

\* signal values on both sides of the reason threshold 0.60
SignalValues == {0, 6000, 6500, One}

\* signals dicts given to the detector's functions directly: all five equal,
\* any mix of SignalValues, or what the five checks can return
SignalInputs ==
    {EqualSignals(x) : x \in Confidences}
    \cup [{SignalNames[i] : i \in 1..Len(SignalNames)} -> SignalValues]
    \cup SignalSets

\* the calls of apply_policy_rules that run concurrently
NumThreads == 2

Threads == 1..NumThreads

\* the frame of a call that has not started; policy_flags holds the address
\* of the list, 0 before the list exists
IdleFrame ==
    [pc |-> "idle", verdict |-> "", confidence |-> 0, risk_level |-> "",
     final_verdict |-> "", final_risk_level |-> "", policy_flags |-> 0,
     result |-> NoDecision]

NoFrames == [t \in Threads |-> IdleFrame]

\* arguments of the concurrent calls: one that fires rules 1 and 3, one that
\* fires rules 2 and 3, one that fires rule 1 alone, one that fires no rule
\* (under the shipped thresholds, offline)
PolicyCalls ==
    { [verdict |-> "UNCERTAIN", confidence |-> 9900, risk_level |-> "LOW"],
      [verdict |-> "DEEPFAKE", confidence |-> 5000, risk_level |-> "HIGH"],
      [verdict |-> "DEEPFAKE", confidence |-> 9900, risk_level |-> "HIGH"],
      [verdict |-> "REAL", confidence |-> 2000, risk_level |-> "LOW"] }

\* the configurations the concurrent calls run under: the shipped thresholds
\* in either recognized mode
ConcurrentConfigurations ==
    { c \in Configurations :
        /\ c.RUNTIME_MODE \in RecognizedModes
        /\ c.DEEPFAKE_THRESHOLD_LOW = DEEPFAKE_THRESHOLD_LOW
        /\ c.DEEPFAKE_THRESHOLD_HIGH = DEEPFAKE_THRESHOLD_HIGH }

(***************************************************************************)
(* The state machine: one evaluation of one media item, or one bare call   *)
(* of the policy engine.                                                   *)
(***************************************************************************)
Init ==
    /\ settings \in Configurations
    /\ pc = "start"
    /\ media = ""
    /\ predictions = << >>
    /\ signals = NoSignals
    /\ score = 0
    /\ classified = NoPair
    /\ args = NoArgs
    /\ trace = << >>
    /\ decision = NoDecision
    /\ events = << >>
    /\ interpreter \in SumAlgorithms
    /\ analysis = NoAnalysis
    /\ explanation = NoExplanation
    /\ frames = NoFrames
    /\ heap = << >>

\* video path: aggregate_predictions(predictions)
AggregatePredictions ==
    /\ pc = "start"
    /\ \E preds \in PredictionInputs :
        /\ predictions' = preds
        /\ score' = aggregate_predictions(preds)
        /\ events' = IF preds = << >> THEN events
                     ELSE log_event(events, "TEMPORAL_AGGREGATION_COMPLETE",
                                    AggregationEvent(preds))
    /\ media' = "video"
    /\ pc' = "scored"
    /\ UNCHANGED <<frames, heap>>
    /\ UNCHANGED <<settings, signals, classified, args, trace, decision, interpreter,
                   analysis, explanation>>

\* audio path: run_audio_inference(audio_path), the score of analyze_audio
RunAudioInference ==
    /\ pc = "start"
    /\ \E sig \in SignalSets :
        /\ signals' = sig
        /\ analysis' = analyze_audio(sig)
    /\ score' = analysis'.score
    /\ media' = "audio"
    /\ pc' = "scored"
    /\ UNCHANGED <<frames, heap>>
    /\ UNCHANGED <<settings, predictions, classified, args, trace, decision, events,
                   interpreter, explanation>>

\* the classifier on the score, with the thresholds of the media type
Classify ==
    /\ pc = "scored"
    /\ classified' = classify(score, ClassifierThresholds(media)[1],
                              ClassifierThresholds(media)[2])
    /\ pc' = "classified"
    /\ UNCHANGED <<frames, heap>>
    /\ UNCHANGED <<settings, media, predictions, signals, score, args, trace,
                   decision, events, interpreter, analysis, explanation>>

\* the call apply_policy_rules(verdict, confidence, risk_level)
Call(verdict, confidence, risk_level) ==
    /\ args' = [verdict |-> verdict, confidence |-> confidence,
                risk_level |-> risk_level]
    /\ trace' = PolicyTrace(verdict, confidence, risk_level)
    /\ decision' = apply_policy_rules(verdict, confidence, risk_level)
    /\ pc' = "decided"

\* the policy engine on the classifier's output
ApplyPolicy ==
    /\ pc = "classified"
    /\ Call(classified.verdict, score, classified.risk_level)
    /\ UNCHANGED <<frames, heap>>
    /\ UNCHANGED <<settings, media, predictions, signals, score, classified, events,
                   interpreter, analysis, explanation>>

\* a bare call of apply_policy_rules with arbitrary arguments
ApplyPolicyRules ==
    /\ pc = "start"
    /\ \E v \in Verdicts, c \in Confidences, r \in RiskInputs : Call(v, c, r)
    /\ media' = "direct"
    /\ UNCHANGED <<frames, heap>>
    /\ UNCHANGED <<settings, predictions, signals, score, classified, events,
                   interpreter, analysis, explanation>>

Next ==
    \/ AggregatePredictions
    \/ RunAudioInference
    \/ Classify
    \/ ApplyPolicy
    \/ ApplyPolicyRules

Spec == Init /\ [][Next]_vars

(***************************************************************************)
(* The detector's own computation on a signals dict given directly: lines  *)
(* 51-70 of analyze_audio behind the five _check_* calls.                  *)
(***************************************************************************)
DetectorInit ==
    /\ settings = ShippedSettings
    /\ pc = "signals"
    /\ media = "audio"
    /\ predictions = << >>
    /\ signals \in SignalInputs
    /\ score = 0
    /\ classified = NoPair
    /\ args = NoArgs
    /\ trace = << >>
    /\ decision = NoDecision
    /\ events = << >>
    /\ interpreter \in SumAlgorithms
    /\ analysis = NoAnalysis
    /\ explanation = NoExplanation
    /\ frames = NoFrames
    /\ heap = << >>

\* fusion, confidence and explanation of the signals
AnalyzeSignals ==
    /\ pc = "signals"
    /\ analysis' = analyze_audio(signals)
    /\ score' = analysis'.score
    /\ pc' = "analysed"
    /\ UNCHANGED <<frames, heap>>
    /\ UNCHANGED <<settings, media, predictions, signals, classified, args, trace,
                   decision, events, interpreter, explanation>>

DetectorNext == AnalyzeSignals

DetectorSpec == DetectorInit /\ [][DetectorNext]_vars

(***************************************************************************)
(* The explanation engine called on its own.                               *)
(***************************************************************************)
ExplanationInit ==
    /\ settings = ShippedSettings
    /\ pc = "start"
    /\ media = ""
    /\ predictions = << >>
    /\ signals = NoSignals
    /\ score = 0
    /\ classified = NoPair
    /\ args = NoArgs
    /\ trace = << >>
    /\ decision = NoDecision
    /\ events = << >>
    /\ interpreter \in SumAlgorithms
    /\ analysis = NoAnalysis
    /\ explanation = NoExplanation
    /\ frames = NoFrames
    /\ heap = << >>

\* the call generate_explanation(verdict, confidence, risk_level)
GenerateExplanation ==
    /\ pc = "start"
    /\ \E v \in VerdictInputs, c \in ExplainedConfidences, r \in RiskInputs :
        /\ args' = [verdict |-> v, confidence |-> c, risk_level |-> r]
        /\ explanation' = generate_explanation(v, c, r)
    /\ pc' = "explained"
    /\ UNCHANGED <<frames, heap>>
    /\ UNCHANGED <<settings, media, predictions, signals, score, classified, trace,
                   decision, events, interpreter, analysis>>

ExplanationNext == GenerateExplanation

ExplanationSpec == ExplanationInit /\ [][ExplanationNext]_vars

(***************************************************************************)
(* Concurrent calls of apply_policy_rules.  Every call has its own frame   *)
(* of locals; the lists live on the heap, which all calls share, and a     *)
(* frame holds the address of its list.  A step is one rule of one call;   *)
(* the calls interleave in any order.  The settings object is shared and   *)
(* read by rules 2 and 3.                                                  *)
(***************************************************************************)
ConcurrentInit ==
    /\ settings \in ConcurrentConfigurations
    /\ pc = "threads"
    /\ media = "direct"
    /\ predictions = << >>
    /\ signals = NoSignals
    /\ score = 0
    /\ classified = NoPair
    /\ args = NoArgs
    /\ trace = << >>
    /\ decision = NoDecision
    /\ events = << >>
    /\ interpreter \in SumAlgorithms
    /\ analysis = NoAnalysis
    /\ explanation = NoExplanation
    /\ frames = NoFrames
    /\ heap = << >>

\* a call of apply_policy_rules assigns to nothing but its locals and its
\* list: the settings object and the rest of the process stay as they are
OutsideFrames ==
    UNCHANGED <<settings, pc, media, predictions, signals, score, classified,
                args, trace, decision, events, interpreter, analysis,
                explanation>>

\* the locals of call t with its list read from the heap
Locals(t) ==
    [final_verdict |-> frames[t].final_verdict,
     final_risk_level |-> frames[t].final_risk_level,
     policy_flags |-> heap[frames[t].policy_flags]]

\* the locals w written back: the names rebound in the frame, the list
\* changed in place
Store(t, w, next) ==
    /\ frames' = [frames EXCEPT ![t].final_verdict = w.final_verdict,
                                ![t].final_risk_level = w.final_risk_level,
                                ![t].pc = next]
    /\ heap' = [heap EXCEPT ![frames[t].policy_flags] = w.policy_flags]

\* lines 26-28: the call binds its arguments and creates its list
BeginCall(t) ==
    /\ frames[t].pc = "idle"
    /\ \E a \in PolicyCalls :
        LET w == PolicyStart(a.verdict, a.risk_level)
            new == Allocate(heap, w.policy_flags)
        IN  /\ frames' = [frames EXCEPT ![t] =
                            [pc |-> "rule1",
                             verdict |-> a.verdict,
                             confidence |-> a.confidence,
                             risk_level |-> a.risk_level,
                             final_verdict |-> w.final_verdict,
                             final_risk_level |-> w.final_risk_level,
                             policy_flags |-> new.address,
                             result |-> NoDecision]]
            /\ heap' = new.heap
    /\ OutsideFrames

\* lines 30-35
RunRule1(t) ==
    /\ frames[t].pc = "rule1"
    /\ Store(t, Rule1(Locals(t), frames[t].confidence), "rule2")
    /\ OutsideFrames

\* lines 37-43
RunRule2(t) ==
    /\ frames[t].pc = "rule2"
    /\ Store(t, Rule2(Locals(t), frames[t].confidence), "rule3")
    /\ OutsideFrames

\* lines 45-50
RunRule3(t) ==
    /\ frames[t].pc = "rule3"
    /\ Store(t, Rule3(Locals(t)), "return")
    /\ OutsideFrames

\* lines 56-61: the dict holds the list itself, not a copy
ReturnDecision(t) ==
    /\ frames[t].pc = "return"
    /\ frames' = [frames EXCEPT
                    ![t].pc = "returned",
                    ![t].result = PolicyReturn(
                        [final_verdict |-> frames[t].final_verdict,
                         final_risk_level |-> frames[t].final_risk_level,
                         policy_flags |-> frames[t].policy_flags])]
    /\ heap' = heap
    /\ OutsideFrames

ConcurrentNext ==
    \E t \in Threads :
        \/ BeginCall(t)
        \/ RunRule1(t)
        \/ RunRule2(t)
        \/ RunRule3(t)
        \/ ReturnDecision(t)

ConcurrentSpec == ConcurrentInit /\ [][ConcurrentNext]_vars

(***************************************************************************)
(* Vocabulary of the properties.                                           *)
(***************************************************************************)
Decided == pc = "decided"

\* the video thresholds are the shipped pair 0.40 / 0.75
ShippedThresholds ==
    /\ settings.DEEPFAKE_THRESHOLD_LOW = DEEPFAKE_THRESHOLD_LOW
    /\ settings.DEEPFAKE_THRESHOLD_HIGH = DEEPFAKE_THRESHOLD_HIGH

\* strictly inside the configured band
InBand(c) ==
    settings.DEEPFAKE_THRESHOLD_LOW < c /\ c < settings.DEEPFAKE_THRESHOLD_HIGH

\* LOW < MEDIUM < HIGH < CRITICAL
Rank(r) ==
    CASE r = "LOW" -> 1
      [] r = "MEDIUM" -> 2
      [] r = "HIGH" -> 3
      [] r = "CRITICAL" -> 4
      [] OTHER -> 0

Flags == decision.policy_applied

Has(flag) == \E i \in 1..Len(Flags) : Flags[i] = flag

Count(flag) == Cardinality({i \in 1..Len(Flags) : Flags[i] = flag})

\* the working verdict rule 3 reads: UNCERTAIN passed in, or forced by rule 2
UncertainAfterRule2 == args.verdict = "UNCERTAIN" \/ InBand(args.confidence)

(***************************************************************************)
(* C1: for every call with confidence > 0.98, any verdict, any risk level, *)
(* either runtime mode and thresholds 0.40/0.75, the returned risk_level   *)
(* is CRITICAL.  Violated: offline, an UNCERTAIN verdict passed in with    *)
(* confidence > 0.98 is set to CRITICAL by rule 1 and then to HIGH by      *)
(* rule 3.                                                                 *)
(***************************************************************************)
C1_ExtremeConfidenceIsCritical ==
    ( /\ Decided
      /\ ShippedThresholds
      /\ settings.RUNTIME_MODE \in RecognizedModes
      /\ args.confidence > EXTREME_CONFIDENCE )
    => decision.risk_level = "CRITICAL"

(***************************************************************************)
(* C2: the policy engine only raises risk: the returned risk_level is at   *)
(* least the one passed in, and no rule lowers a level that an earlier     *)
(* rule of the same evaluation has set.  Violated: rule 2 forces MEDIUM    *)
(* and rule 3 forces HIGH whatever the level was before, already under the  *)
(* shipped settings.                                                       *)
(***************************************************************************)
C2_RiskOnlyRaised ==
    (Decided /\ settings = ShippedSettings /\ args.risk_level \in RiskLevels)
    => /\ Rank(decision.risk_level) >= Rank(args.risk_level)
       /\ \A k \in 2..3 :
            trace[k].policy_flags # << >>
            => Rank(trace[k + 1].final_risk_level) >= Rank(trace[k].final_risk_level)

(***************************************************************************)
(* C3: strictly inside the band threshold_low < confidence <               *)
(* threshold_high the decision has verdict UNCERTAIN and the flag          *)
(* REQUIRES_HUMAN_REVIEW, whatever verdict and risk were passed in; at     *)
(* either threshold and outside the band the flag is absent.               *)
(***************************************************************************)
C3_AmbiguityZoneRule ==
    Decided =>
        IF InBand(args.confidence)
        THEN decision.verdict = "UNCERTAIN" /\ Has("REQUIRES_HUMAN_REVIEW")
        ELSE ~Has("REQUIRES_HUMAN_REVIEW")

\* a DEEPFAKE / HIGH input inside the band comes back UNCERTAIN with the flag
C3_Witness ==
    /\ Decided
    /\ ShippedThresholds
    /\ args.verdict = "DEEPFAKE"
    /\ args.risk_level = "HIGH"
    /\ InBand(args.confidence)
    /\ decision.verdict = "UNCERTAIN"
    /\ Has("REQUIRES_HUMAN_REVIEW")

C5_ActionFollowsRisk ==
    Decided =>
        IF decision.risk_level = "HIGH" \/ decision.risk_level = "CRITICAL"
        THEN decision.action_required = "MANUAL_INSPECTION"
        ELSE decision.action_required = "NONE"

\* an unrecognized risk string passes through all rules and needs no action
C5_Witness ==
    /\ Decided
    /\ args.risk_level = "UNKNOWN"
    /\ decision.risk_level = "UNKNOWN"
    /\ decision.action_required = "NONE"

(***************************************************************************)
(* C6: the flag list is the list of the rules that fired, in firing order: *)
(* the subsequence of EXTREME_CONFIDENCE_LOCK, REQUIRES_HUMAN_REVIEW,      *)
(* OFFLINE_PRECAUTIONARY_ESCALATION holding each flag once if the          *)
(* condition of its rule held when the rule was evaluated, and not at all  *)
(* otherwise.                                                              *)
(***************************************************************************)
C6_FlagsRecordFiredRules ==
    Decided =>
        LET fired(flag) ==
                CASE flag = "EXTREME_CONFIDENCE_LOCK" ->
                        args.confidence > EXTREME_CONFIDENCE
                  [] flag = "REQUIRES_HUMAN_REVIEW" ->
                        InBand(args.confidence)
                  [] flag = "OFFLINE_PRECAUTIONARY_ESCALATION" ->
                        settings.RUNTIME_MODE = "EDGE_OFFLINE" /\ UncertainAfterRule2
        IN  Flags = SelectSeq(<<"EXTREME_CONFIDENCE_LOCK", "REQUIRES_HUMAN_REVIEW",
                                "OFFLINE_PRECAUTIONARY_ESCALATION">>, fired)

\* all three rules fire in one evaluation
C6_Witness ==
    /\ Decided
    /\ Flags = <<"EXTREME_CONFIDENCE_LOCK", "REQUIRES_HUMAN_REVIEW",
                 "OFFLINE_PRECAUTIONARY_ESCALATION">>

(***************************************************************************)
(* C7: in any mode other than EDGE_OFFLINE rule 3 never fires: the flag    *)
(* OFFLINE_PRECAUTIONARY_ESCALATION is absent and the verdict and risk     *)
(* level left by rules 1 and 2 are returned; apply(DEEPFAKE, 0.99, HIGH)   *)
(* online, thresholds 0.40/0.75, gives CRITICAL with the flags             *)
(* [EXTREME_CONFIDENCE_LOCK].                                              *)
(***************************************************************************)
C7_OnlineNeverEscalates ==
    (Decided /\ settings.RUNTIME_MODE # "EDGE_OFFLINE")
    => /\ ~Has("OFFLINE_PRECAUTIONARY_ESCALATION")
       /\ decision.verdict = trace[3].final_verdict
       /\ decision.risk_level = trace[3].final_risk_level
       /\ Flags = trace[3].policy_flags
       /\ ( /\ ShippedThresholds
            /\ args = [verdict |-> "DEEPFAKE", confidence |-> 9900,
                       risk_level |-> "HIGH"] )
          => /\ decision.risk_level = "CRITICAL"
             /\ Flags = <<"EXTREME_CONFIDENCE_LOCK">>

\* online, an UNCERTAIN verdict in the band stays at the MEDIUM of rule 2
C7_Witness ==
    /\ Decided
    /\ settings.RUNTIME_MODE = "EDGE_ONLINE"
    /\ args.verdict = "UNCERTAIN"
    /\ InBand(args.confidence)
    /\ decision.risk_level = "MEDIUM"
    /\ Flags = <<"REQUIRES_HUMAN_REVIEW">>

(***************************************************************************)
(* C8: the ambiguity-zone rule uses the threshold pair that classified the *)
(* input: for an audio evaluation (classified with 0.30/0.70) it fires     *)
(* exactly when 0.30 < confidence < 0.70, for a video evaluation           *)
(* (classified with 0.40/0.75) exactly when 0.40 < confidence < 0.75.      *)
(* Violated: rule 2 reads the video pair for every media type.             *)
(***************************************************************************)
C8_RuleUsesClassifierThresholds ==
    (Decided /\ media \in {"video", "audio"} /\ settings = ShippedSettings)
    => ( Has("REQUIRES_HUMAN_REVIEW")
         <=> /\ ClassifierThresholds(media)[1] < score
             /\ score < ClassifierThresholds(media)[2] )

(***************************************************************************)
(* C9: a configuration error aborts the evaluation: with threshold_low >=  *)
(* threshold_high, or with an unrecognized runtime mode, no PolicyDecision *)
(* is returned.  Violated: the settings are never validated and a decision *)
(* is returned under every configuration.                                  *)
(***************************************************************************)
C9_ConfigErrorAborts ==
    ( \/ settings.DEEPFAKE_THRESHOLD_LOW >= settings.DEEPFAKE_THRESHOLD_HIGH
      \/ settings.RUNTIME_MODE \notin RecognizedModes )
    => ~Decided

(***************************************************************************)
(* C10: the end-to-end video scenario.  The ten scores aggregate to 0.80   *)
(* (the float32 next to 0.80, which lies just above it) with the 0.05      *)
(* outlier removed by the percentile filter; with the                      *)
(* thresholds 0.40/0.75 they classify as DEEPFAKE / HIGH; online the       *)
(* policy engine fires no rule and returns DEEPFAKE, HIGH, no flags,       *)
(* MANUAL_INSPECTION.                                                      *)
(***************************************************************************)
C10_EndToEndScenario ==
    (media = "video" /\ predictions = Scenario /\ pc # "start")
    => /\ score = Float(Float32(8000), 8000)
       /\ events = << [event_type |-> "TEMPORAL_AGGREGATION_COMPLETE",
                       metadata |-> [raw_count |-> 10, filtered_count |-> 8,
                                     final_score |-> score],
                       runtime_mode |-> settings.RUNTIME_MODE] >>
       /\ \A i \in 1..Len(AggregateLocals(predictions).filtered_scores) :
            AggregateLocals(predictions).filtered_scores[i] # 500
       /\ (ShippedThresholds /\ pc \in {"classified", "decided"})
          => classified = [verdict |-> "DEEPFAKE", risk_level |-> "HIGH"]
       /\ (ShippedThresholds /\ settings.RUNTIME_MODE = "EDGE_ONLINE" /\ Decided)
          => decision = [verdict |-> "DEEPFAKE", risk_level |-> "HIGH",
                         policy_applied |-> << >>,
                         action_required |-> "MANUAL_INSPECTION"]

\* the scenario has run to its decision, online, under the shipped thresholds
C10_Witness ==
    /\ Decided
    /\ media = "video"
    /\ predictions = Scenario
    /\ ShippedThresholds
    /\ settings.RUNTIME_MODE = "EDGE_ONLINE"
    /\ decision.action_required = "MANUAL_INSPECTION"

\* the classifier ran on the score of a media item
Classified == pc \in {"classified", "decided"} /\ media \in {"video", "audio"}

\* what the design document prescribes for a confidence and thresholds lo < hi
ClassifiedAsPrescribed(pair, confidence, lo, hi) ==
    /\ pair \in [verdict : Verdicts, risk_level : RiskLevels]
    /\ (pair = [verdict |-> "DEEPFAKE", risk_level |-> "HIGH"]) <=> (confidence >= hi)
    /\ (pair = [verdict |-> "REAL", risk_level |-> "LOW"]) <=> (confidence <= lo)
    /\ (pair = [verdict |-> "UNCERTAIN", risk_level |-> "MEDIUM"])
          <=> (lo < confidence /\ confidence < hi)

(***************************************************************************)
(* C11: with threshold_low < threshold_high the classifier yields          *)
(* (DEEPFAKE, HIGH) exactly when confidence >= threshold_high, (REAL, LOW) *)
(* exactly when confidence <= threshold_low and (UNCERTAIN, MEDIUM)        *)
(* otherwise; the thresholds themselves belong to DEEPFAKE and to REAL.    *)
(* Checked on the score every evaluation classifies and, before any        *)
(* evaluation, on every confidence of the grid with every ordered          *)
(* threshold pair.                                                         *)
(***************************************************************************)
C11_ClassifierPartition ==
    /\ (Classified /\ ClassifierThresholds(media)[1] < ClassifierThresholds(media)[2])
       => ClassifiedAsPrescribed(classified, score, ClassifierThresholds(media)[1],
                                 ClassifierThresholds(media)[2])
    /\ pc = "start"
       => \A t \in ThresholdPairs, c \in Confidences :
            t[1] < t[2] => ClassifiedAsPrescribed(classify(c, t[1], t[2]), c, t[1], t[2])

\* a score equal to threshold_high was classified DEEPFAKE
C11_Witness ==
    /\ Classified
    /\ ClassifierThresholds(media)[1] < ClassifierThresholds(media)[2]
    /\ score = ClassifierThresholds(media)[2]
    /\ classified.verdict = "DEEPFAKE"

\* aggregate_predictions returned for the current predictions
Aggregated == media = "video" /\ pc # "start"

\* every element of the sequence s lies in [0, 1]
AllInUnit(s) == \A i \in 1..Len(s) : 0 <= s[i] /\ s[i] <= One

C13_EmptyIsReal ==
    (Aggregated /\ predictions = << >>)
    => /\ score = 0
       /\ (pc \in {"classified", "decided"} /\ 0 <= ClassifierThresholds(media)[1])
          => classified = [verdict |-> "REAL", risk_level |-> "LOW"]

\* the empty sequence was aggregated and classified
C13_Witness ==
    /\ Aggregated
    /\ predictions = << >>
    /\ pc = "classified"
    /\ classified = [verdict |-> "REAL", risk_level |-> "LOW"]

\* the sequence s rearranged by the permutation f of its indices
Permuted(s, f) == [i \in 1..Len(s) |-> s[f[i]]]

\* the sequence s with its elements i and j exchanged
Swapped(s, i, j) ==
    [k \in 1..Len(s) |-> IF k = i THEN s[j] ELSE IF k = j THEN s[i] ELSE s[k]]

(***************************************************************************)
(* C14: aggregate_predictions is invariant under permutation: every        *)
(* rearrangement of an enumerated sequence, and every exchange of two      *)
(* scores of the ten-score scenario, returns the score just returned       *)
(* (compared right after the aggregation, under the shipped settings).     *)
(***************************************************************************)
C14_PermutationInvariant ==
    (Aggregated /\ pc = "scored" /\ settings = ShippedSettings)
    => /\ Len(predictions) <= MaxLen
          => \A f \in Permutations(1..Len(predictions)) :
                aggregate_predictions(Permuted(predictions, f)) = score
       /\ predictions = Scenario
          => \A i, j \in 1..Len(predictions) :
                aggregate_predictions(Swapped(predictions, i, j)) = score

\* a sequence of three different scores was aggregated
C14_Witness ==
    /\ Aggregated
    /\ pc = "scored"
    /\ settings = ShippedSettings
    /\ Len(predictions) = 3
    /\ Cardinality({predictions[i] : i \in 1..3}) = 3

\* the number of scores of s equal to v
CountOf(s, v) == Cardinality({i \in 1..Len(s) : s[i] = v})

\* s has n >= 3 scores of which at least n-1 equal v, v in [0,1]
AllButOne(s, v) ==
    /\ Len(s) >= 3
    /\ 0 <= v /\ v <= One
    /\ CountOf(s, v) >= Len(s) - 1

RECURSIVE SumOver(_, _)
\* the sum of the scores of s whose value is in vals
SumOver(s, vals) ==
    IF vals = {} THEN 0
    ELSE LET v == CHOOSE x \in vals : TRUE
         IN  v * CountOf(s, v) + SumOver(s, vals \ {v})

\* the unfiltered mean of a non-empty s
Mean(s) == SumOver(s, {s[i] : i \in 1..Len(s)}) \div Len(s)

Distance(a, b) == IF a >= b THEN a - b ELSE b - a

\* v/One is a float32 value: a multiple of 1/16
Representable(v) == v % (One \div 16) = 0

HighButOne(s, i, bound) ==
    /\ 0 <= s[i] /\ s[i] <= One
    /\ \A j \in 1..Len(s) : j # i => s[j] >= bound

\* all scores of s but the one at position i are <= bound
LowButOne(s, i, bound) ==
    /\ 0 <= s[i] /\ s[i] <= One
    /\ \A j \in 1..Len(s) : j # i => s[j] <= bound

(***************************************************************************)
(* C16: a single noisy sample cannot flip the outcome: if all but one of   *)
(* n >= 3 scores in [0,1] are >= threshold_high (the last one anywhere)    *)
(* the aggregate is >= threshold_high, and if all but one are              *)
(* <= threshold_low the aggregate is <= threshold_low.                     *)
(***************************************************************************)
C16_NoisySampleCannotFlip ==
    (Aggregated /\ Len(predictions) >= 3 /\ AllInUnit(predictions) /\ ShippedThresholds)
    => \A i \in 1..Len(predictions) :
          /\ HighButOne(predictions, i, settings.DEEPFAKE_THRESHOLD_HIGH)
             => score >= settings.DEEPFAKE_THRESHOLD_HIGH
          /\ LowButOne(predictions, i, settings.DEEPFAKE_THRESHOLD_LOW)
             => score <= settings.DEEPFAKE_THRESHOLD_LOW

\* analyze_audio has computed its dict from the current signals
Analysed == pc = "analysed" \/ (media = "audio" /\ pc \in {"scored", "classified", "decided"})

\* the five signals are all equal
AllEqual(sig) ==
    \A i \in 1..Len(SignalNames) : sig[SignalNames[i]] = sig[SignalNames[1]]

\* analyze_audio fused five equal signals
FusedEqual == Analysed /\ AllEqual(signals) /\ signals[SignalNames[1]] \in Confidences

\* the weights of lines 52-58 as floats, added one after the other
RECURSIVE FloatWeightSum(_)
FloatWeightSum(n) ==
    IF n = 0 THEN Zero ELSE DAdd(FloatWeightSum(n - 1), Double(100 * Weights[SignalNames[n]]))

\* the weights sum to 1.0, in exact arithmetic and as floats, and the fused
\* score is the float next to the weighted sum of the five signals
WeightedDotProduct ==
    /\ WeightedSum(EqualSignals(1), Len(SignalNames)) = 100
    /\ DSide(FloatWeightSum(Len(SignalNames)), One) = 0
    /\ Analysed
       => \E e \in {-1, 0, 1} :
            100 * (analysis.score - e)
              = 25 * signals.spectral_inconsistency + 20 * signals.pitch_abnormality
                + 15 * signals.energy_gaps + 25 * signals.high_freq_artifacts
                + 15 * signals.temporal_discontinuity

WithinOneUlp(f, x) ==
    LET diff == DSub(f, Double(x))
    IN  DCmpAbs([s |-> 1, m |-> diff.m, e |-> diff.e - (DoubleBits - 1)], Double(x)) <= 0

C18_ConfidenceClamped ==
    Analysed
    => /\ 3000 <= analysis.confidence /\ analysis.confidence <= 9500
       /\ analysis.confidence =
            (IF One - StdDev(signals) > 9500 THEN 9500
             ELSE IF One - StdDev(signals) < 3000 THEN 3000
             ELSE One - StdDev(signals))
       /\ AllEqual(signals) => analysis.confidence = 9500

\* signals that disagree were analysed: the confidence lies inside the clamp
C18_Witness ==
    /\ Analysed
    /\ ~AllEqual(signals)
    /\ 3000 < analysis.confidence /\ analysis.confidence < 9500
    /\ analysis.confidence = One - StdDev(signals)

\* the reason of each signal that can be listed, in the order of the listing
ReasonTexts ==
    <<[signal |-> "spectral_inconsistency", text |-> "unnatural spectral patterns"],
      [signal |-> "pitch_abnormality", text |-> "robotic pitch contours"],
      [signal |-> "high_freq_artifacts", text |-> "weak high-frequency content"]>>

\* the texts of the listed signals above 0.60, in the order of the listing
ListedReasons(sig) ==
    LET above == SelectSeq(ReasonTexts, LAMBDA t : sig[t.signal] > 6000)
    IN  [i \in 1..Len(above) |-> above[i].text]

\* the explanation the design document prescribes for signals and a score
PrescribedExplanation(sig, s) ==
    IF s > 7000
    THEN "LIKELY DEEPFAKE: Detected " \o Join(", ", ListedReasons(sig)) \o "."
    ELSE IF s > 4000
    THEN "UNCERTAIN: Some suspicious artifacts detected, but inconclusive."
    ELSE "LIKELY AUTHENTIC: Audio shows natural speech characteristics."

(***************************************************************************)
(* C19: the local audio explanation is chosen by strict comparison: a      *)
(* score > 0.70 gives LIKELY DEEPFAKE with the reasons in the fixed order  *)
(* spectral, pitch, high-frequency, each listed exactly when its signal is *)
(* > 0.60 (energy gaps and temporal discontinuity are never listed);       *)
(* 0.40 < score <= 0.70 gives the UNCERTAIN message; score <= 0.40 gives   *)
(* LIKELY AUTHENTIC.  Checked on the explanation of every analysis and, for*)
(* its signals, on the scores at and next to both comparison values.       *)
(***************************************************************************)
C19_AudioExplanation ==
    Analysed
    => /\ analysis.explanation = PrescribedExplanation(signals, analysis.score)
       /\ \A s \in {3999, 4000, 4001, 6999, 7000, 7001} :
            _generate_explanation(signals, s) = PrescribedExplanation(signals, s)
       /\ _generate_explanation(signals, 7000)
            = "UNCERTAIN: Some suspicious artifacts detected, but inconclusive."
       /\ _generate_explanation(signals, 4000)
            = "LIKELY AUTHENTIC: Audio shows natural speech characteristics."

\* a score above 0.70 with four signals above 0.60 was explained by the three
\* listed reasons
C19_Witness ==
    /\ Analysed
    /\ analysis.score > 7000
    /\ signals.energy_gaps > 6000
    /\ analysis.explanation =
         "LIKELY DEEPFAKE: Detected unnatural spectral patterns, robotic pitch contours, weak high-frequency content."

\* generate_explanation has returned for the arguments in args
Explained == pc = "explained"

(***************************************************************************)
(* C20: generate_explanation maps every (verdict, confidence, risk_level)  *)
(* to one text.  DEEPFAKE cites round(confidence * 100, 2) percent (0.876  *)
(* gives 87.6), REAL cites 100 minus that number, any other verdict gives  *)
(* the ambiguous-verdict clause without a number.  CRITICAL, HIGH and      *)
(* MEDIUM each have their own risk clause; LOW and every other risk level  *)
(* give the no-significant-anomalies clause.  The base clause does not     *)
(* depend on the risk level nor the risk clause on the verdict.            *)
(***************************************************************************)
C20_ExplanationMapping ==
    Explained
    => /\ args.verdict = "DEEPFAKE"
          => explanation.base_msg =
               [text |-> "The system detected strong indicators of digital manipulation (Confidence: {}%).",
                number |-> <<args.confidence>>]
       /\ (args.verdict = "DEEPFAKE" /\ args.confidence = 8760)
          => explanation.base_msg.number = <<100 * 87 + 60>>
       /\ args.verdict = "REAL"
          => /\ explanation.base_msg.text =
                  "The analysis suggests the media is authentic (Confidence: {}% real)."
             /\ Len(explanation.base_msg.number) = 1
             /\ Distance(explanation.base_msg.number[1], 100 * 100 - args.confidence) <= 1
       /\ args.verdict \notin {"DEEPFAKE", "REAL"}
          => explanation.base_msg =
               [text |-> "The analysis resulted in an ambiguous verdict.", number |-> << >>]
       /\ explanation.risk_msg =
            (CASE args.risk_level = "CRITICAL" ->
                    " This media shows high-probability synthesis and should be treated as high-risk content."
               [] args.risk_level = "HIGH" ->
                    " Significant anomalies were found. Manual verification is strongly recommended."
               [] args.risk_level = "MEDIUM" ->
                    " The system encountered conflicting patterns. Please review the detailed analysis."
               [] OTHER -> " No significant anomalies detected.")
       /\ \A r \in RiskInputs :
            generate_explanation(args.verdict, args.confidence, r).base_msg
              = explanation.base_msg
       /\ \A v \in VerdictInputs :
            generate_explanation(v, args.confidence, args.risk_level).risk_msg
              = explanation.risk_msg

\* a REAL verdict at confidence 0.876 and an unrecognized risk level were
\* explained
C20_Witness ==
    /\ Explained
    /\ args = [verdict |-> "REAL", confidence |-> 8760, risk_level |-> "UNKNOWN"]
    /\ explanation.risk_msg = " No significant anomalies detected."
    /\ Distance(explanation.base_msg.number[1], 1240) <= 1

(***************************************************************************)
(* C21: for verdict UNCERTAIN the explanation does not depend on the       *)
(* confidence: the text returned for (UNCERTAIN, c1, risk) is the text     *)
(* generate_explanation returns for (UNCERTAIN, c2, risk), for every risk  *)
(* level and every two confidences c1, c2.                                 *)
(***************************************************************************)
C21_UncertainIgnoresConfidence ==
    (Explained /\ args.verdict = "UNCERTAIN")
    => \A c2 \in ExplainedConfidences :
          generate_explanation("UNCERTAIN", c2, args.risk_level) = explanation

\* an UNCERTAIN verdict was explained at confidence 0.876 and risk HIGH, and
\* the text carries no number
C21_Witness ==
    /\ Explained
    /\ args = [verdict |-> "UNCERTAIN", confidence |-> 8760, risk_level |-> "HIGH"]
    /\ explanation.base_msg.number = << >>
    /\ explanation = generate_explanation("UNCERTAIN", 0, "HIGH")

(***************************************************************************)
(* C22: concurrent policy evaluations do not interfere.  Under every       *)
(* interleaving, at every point of a call its locals and its flag list are *)
(* those the call has when it runs alone with the same arguments and       *)
(* configuration, so is the dict it returns, no two calls share a flag     *)
(* list, and no step of an evaluation changes the configuration.           *)
(***************************************************************************)
\* the stage of the call alone that the position of call t corresponds to
StageOf(t) ==
    CASE frames[t].pc = "rule1" -> 1
      [] frames[t].pc = "rule2" -> 2
      [] frames[t].pc = "rule3" -> 3
      [] OTHER -> 4

Started(t) == frames[t].pc # "idle"

\* the dict call t returned, with the list it refers to read from the heap
Returned(t) == [frames[t].result EXCEPT !.policy_applied = heap[@]]

AsWhenAlone(t) ==
    /\ Locals(t) = PolicyTrace(frames[t].verdict, frames[t].confidence,
                               frames[t].risk_level)[StageOf(t)]
    /\ frames[t].pc = "returned"
       => Returned(t) = apply_policy_rules(frames[t].verdict, frames[t].confidence,
                                           frames[t].risk_level)

NoInterference ==
    /\ \A t \in Threads : Started(t) => AsWhenAlone(t)
    /\ \A t, u \in Threads :
         (t # u /\ Started(t) /\ Started(u))
         => frames[t].policy_flags # frames[u].policy_flags

C22_EvaluationsDoNotInterfere ==
    /\ []NoInterference
    /\ [][settings' = settings]_vars

\* two calls in flight, each between its rules with a flag of its own on its
\* list, while neither has returned
C22_Witness ==
    /\ settings = ShippedSettings
    /\ frames[1].pc = "rule3"
    /\ frames[2].pc = "rule2"
    /\ frames[1].confidence = 5000
    /\ frames[2].confidence = 9900
    /\ heap[frames[1].policy_flags] = <<"REQUIRES_HUMAN_REVIEW">>
    /\ heap[frames[2].policy_flags] = <<"EXTREME_CONFIDENCE_LOCK">>

\* the scores of s are all the same once clamped
AllIdentical(s) == s # << >> /\ \A i \in 1..Len(s) : Clip(s[i]) = Clip(s[1])

\* line 34 applied to the clamped scores of s: what the filter keeps
Kept(s) ==
    FilterScores(AggregateLocals(s).scores, AggregateLocals(s).lower100,
                 AggregateLocals(s).upper100)

\* line 36: the filter kept nothing and the unfiltered scores are used
FallbackTaken(s) == Len(Kept(s)) = 0

\* C23 as the design document words it: for all-identical scores the filter
\* removes every value and the fallback is taken
C23_IdenticalScoresTakeFallback ==
    (Aggregated /\ pc = "scored" /\ AllIdentical(predictions))
    => FallbackTaken(predictions)

(***************************************************************************)
(* C23, amended: for an all-identical score sequence both percentiles      *)
(* equal the common value v, the inclusive [p5, p95] filter keeps every    *)
(* score, the fallback to the unfiltered set is not taken, and the result  *)
(* is the median of the kept scores, v to single precision.                *)
(***************************************************************************)
C23_IdenticalScoresKeepAll ==
    (Aggregated /\ pc = "scored" /\ AllIdentical(predictions))
    => /\ AggregateLocals(predictions).lower100 = 100 * Clip(predictions[1])
       /\ AggregateLocals(predictions).upper100 = 100 * Clip(predictions[1])
       /\ Kept(predictions) = AggregateLocals(predictions).scores
       /\ ~FallbackTaken(predictions)
       /\ score = Float(Float32(Clip(predictions[1])), Clip(predictions[1]))

\* three scores of 0.4 were aggregated and all three were kept
C23_Witness ==
    /\ Aggregated
    /\ pc = "scored"
    /\ predictions = <<4000, 4000, 4000>>
    /\ Len(Kept(predictions)) = 3

\* near-certain in either direction: above 0.98, or as close to zero
NearCertain(c) == c > EXTREME_CONFIDENCE \/ c < One - EXTREME_CONFIDENCE

(***************************************************************************)
(* C24: the extreme-confidence lock covers near-certain scores in either   *)
(* direction: for a confidence below 0.02 as for one above 0.98, rule 1    *)
(* sets the risk level to CRITICAL and appends EXTREME_CONFIDENCE_LOCK.    *)
(* Violated: rule 1 tests confidence > 0.98 alone, a confidence of 0.01    *)
(* passes it untouched.                                                    *)
(***************************************************************************)
C24_LockCoversBothDirections ==
    (Decided /\ NearCertain(args.confidence))
    => /\ trace[2].final_risk_level = "CRITICAL"
       /\ trace[2].policy_flags = <<"EXTREME_CONFIDENCE_LOCK">>

(***************************************************************************)
(* C25: the policy engine never introduces a REAL or DEEPFAKE verdict: the *)
(* returned verdict is the verdict passed in or UNCERTAIN, and it differs  *)
(* from the verdict passed in only when the ambiguity-zone rule fired.     *)
(***************************************************************************)
C25_VerdictKeptOrUncertain ==
    Decided
    => /\ decision.verdict \in {args.verdict, "UNCERTAIN"}
       /\ decision.verdict # args.verdict
          => /\ InBand(args.confidence)
             /\ Has("REQUIRES_HUMAN_REVIEW")
       /\ \A k \in 1..3 :
            trace[k + 1].final_verdict # trace[k].final_verdict => k = 2

\* a REAL verdict passed with a confidence inside the band came back
\* UNCERTAIN, changed by rule 2 and by no other rule
C25_Witness ==
    /\ Decided
    /\ args.verdict = "REAL"
    /\ InBand(args.confidence)
    /\ decision.verdict = "UNCERTAIN"
    /\ trace[2].final_verdict = "REAL"
    /\ trace[3].final_verdict = "UNCERTAIN"

\* the video path has run to its decision
VideoDecided == Decided /\ media = "video"

\* classify(c, 0.40, 0.75) and the decision of apply_policy_rules on it
ClassifiedVideo(c) == classify(c, DEEPFAKE_THRESHOLD_LOW, DEEPFAKE_THRESHOLD_HIGH)

DecidedVideo(c) ==
    apply_policy_rules(ClassifiedVideo(c).verdict, c, ClassifiedVideo(c).risk_level)

FlagIn(flags, flag) == \E i \in 1..Len(flags) : flags[i] = flag

(***************************************************************************)
(* C26: classifier and policy engine agree on the video path.  When the    *)
(* result of classify(confidence, 0.40, 0.75) is passed with the same      *)
(* confidence to apply_policy_rules under the shipped thresholds, the      *)
(* ambiguity-zone rule fires if and only if the classifier's verdict is    *)
(* UNCERTAIN, and the returned verdict is the classifier's verdict.        *)
(* Checked on every video evaluation and, before any evaluation, on every  *)
(* confidence of the grid.                                                 *)
(***************************************************************************)
C26_ClassifierAndPolicyAgree ==
    /\ (VideoDecided /\ ShippedThresholds)
       => /\ Has("REQUIRES_HUMAN_REVIEW") <=> classified.verdict = "UNCERTAIN"
          /\ decision.verdict = classified.verdict
    /\ (pc = "start" /\ ShippedThresholds)
       => \A c \in Confidences :
            /\ FlagIn(DecidedVideo(c).policy_applied, "REQUIRES_HUMAN_REVIEW")
               <=> ClassifiedVideo(c).verdict = "UNCERTAIN"
            /\ DecidedVideo(c).verdict = ClassifiedVideo(c).verdict

\* a video whose scores aggregate to the float just above 0.40 was
\* classified UNCERTAIN and decided UNCERTAIN by the ambiguity-zone rule
C26_Witness ==
    /\ VideoDecided
    /\ ShippedThresholds
    /\ score = DEEPFAKE_THRESHOLD_LOW + 1
    /\ classified.verdict = "UNCERTAIN"
    /\ decision.verdict = "UNCERTAIN"
    /\ Has("REQUIRES_HUMAN_REVIEW")

\* the risk level the shipped configuration gives a verdict at the end
RiskAsShipped(verdict, risk_level) ==
    CASE verdict = "REAL" -> risk_level = "LOW"
      [] verdict = "UNCERTAIN" -> risk_level = "HIGH"
      [] verdict = "DEEPFAKE" -> risk_level \in {"HIGH", "CRITICAL"}
      [] OTHER -> FALSE

TwoDistinct(s) == Len(s) = 2 /\ Clip(s[1]) # Clip(s[2])

\* the smaller and the larger clamped score of a two-element s
Smaller(s) == IF Clip(s[1]) < Clip(s[2]) THEN Clip(s[1]) ELSE Clip(s[2])

Larger(s) == IF Clip(s[1]) < Clip(s[2]) THEN Clip(s[2]) ELSE Clip(s[1])

\* line 34 empties the array of a two-element s and line 37 restores it
TwoElementFallback(s) ==
    /\ 100 * Smaller(s) < AggregateLocals(s).lower100
    /\ AggregateLocals(s).upper100 < 100 * Larger(s)
    /\ Kept(s) = << >>
    /\ FallbackTaken(s)
    /\ AggregateLocals(s).filtered_scores = AggregateLocals(s).scores

AudioScored == media = "audio" /\ pc \in {"scored", "classified", "decided"}

\* every check at its smallest and at its largest return value
LeastSignals ==
    [k \in DOMAIN CheckReturns |->
        CHOOSE v \in CheckReturns[k] : \A u \in CheckReturns[k] : v <= u]

GreatestSignals ==
    [k \in DOMAIN CheckReturns |->
        CHOOSE v \in CheckReturns[k] : \A u \in CheckReturns[k] : v >= u]

\* C29 as stated: the fused score, the float, lies in [0.125, 0.7675]
C29_FusedScoreInInterval ==
    AudioScored
    => /\ 1250 <= score
       /\ score <= 7675
       /\ Decided => ~Has("EXTREME_CONFIDENCE_LOCK")

(***************************************************************************)
(* C29, amended: for every combination of values the five checks can       *)
(* return, the weighted sum lies in [0.125, 0.7675] and the fused score is *)
(* that sum up to float rounding: the largest score is the float just      *)
(* above 0.7675, the smallest is 0.125 or the float just below it          *)
(* depending on the interpreter's sum().  The score never exceeds 0.98, so *)
(* on the audio path the extreme-confidence lock never fires.              *)
(***************************************************************************)
C29_FusedScoreNearInterval ==
    AudioScored
    => /\ 1250 <= ExactScore(signals)
       /\ ExactScore(signals) <= 7675
       /\ Distance(score, ExactScore(signals)) <= 1
       /\ signals = GreatestSignals => score = 7675 + 1
       /\ signals = LeastSignals
          => score = IF interpreter = "plain" THEN 1250 - 1 ELSE 1250
       /\ score <= EXTREME_CONFIDENCE
       /\ Decided => ~Has("EXTREME_CONFIDENCE_LOCK")

\* the five checks returned their largest values, the score is the float
\* above 0.7675 and the decision carries no lock
C29_Witness ==
    /\ AudioScored
    /\ Decided
    /\ signals = GreatestSignals
    /\ score > 7675
    /\ ~Has("EXTREME_CONFIDENCE_LOCK")

\* analyze_audio explained the signals as LIKELY DEEPFAKE
LikelyDeepfake == Analysed /\ analysis.score > LIKELY_DEEPFAKE_ABOVE

\* at least one of the three signals a reason is listed for exceeds 0.60
SomeReasonSignal(sig) ==
    \/ sig.spectral_inconsistency > REASON_ABOVE
    \/ sig.pitch_abnormality > REASON_ABOVE
    \/ sig.high_freq_artifacts > REASON_ABOVE

\* the explanation lists at least one reason
ReasonsListed ==
    /\ analysis.explanation # "LIKELY DEEPFAKE: Detected ."
    /\ SomeReasonSignal(signals)

\* the largest weighted sum with no reason signal above 0.60: those three at
\* 0.60 and the two others at 1.0, which is 0.72
LargestWithoutReason ==
    ( REASON_ABOVE * (Weights.spectral_inconsistency + Weights.pitch_abnormality
                      + Weights.high_freq_artifacts)
      + One * (Weights.energy_gaps + Weights.temporal_discontinuity) ) \div 100

====
